---------------------------- MODULE Spec2Model ----------------------------
(***************************************************************************)
(* Model of the sales channel service of medusa                            *)
(* (packages/medusa/src/services/sales-channel.ts) and of the repository   *)
(* it calls (SalesChannelRepository.addProducts).                          *)
(*                                                                         *)
(* The relational store is modelled with row versions: every row carries   *)
(* the transaction that wrote it (tx).  A row is visible to a transaction  *)
(* when it is committed or written by that transaction; commit turns the   *)
(* rows of a transaction into committed rows, rollback removes them.       *)
(***************************************************************************)
EXTENDS Integers, Sequences, FiniteSets, TLC

\* ------------------------------------------------------------------ bounds
MaxChannels == 2
MaxCalls == 3
MaxIds == 2
NumProcs == 2

\* ------------------------------------------------------------- vocabulary
Undefined == "undefined"
NoEntity == [id |-> Undefined]
Null == "null"
Committed == "committed"
NoRow == [tx |-> "none"]
NoWrite == "no-write"
Now == "now"

UPDATED == "sales_channel.updated"
CREATED == "sales_channel.created"
DELETED == "sales_channel.deleted"

NOT_FOUND == "not_found"
FOREIGN_KEY_ERROR == "23503"
DEADLOCK_DETECTED == "40P01"

Procs == 1..NumProcs
\* the caller of the specification without concurrency
SeqCaller == CHOOSE p \in Procs : \A q \in Procs : p <= q
\* the transaction a caller's atomicPhase_ opens
Tx(p) == "tx_" \o ToString(p)
\* generateEntityId: a fresh id on every insert
GenerateId(n) == "sc_" \o ToString(n)
ChannelIds == {GenerateId(i) : i \in 1..MaxChannels}

ExistingProducts == {"prod_1", "prod_2"}
RequestedProductIds == ExistingProducts \cup {"does-not-exist"}

Fields == {"name", "description", "is_disabled"}

VARIABLES
  channels,   \* sales_channel table: id -> row or NoRow
  assoc,      \* product_sales_channel table: sequence of rows
  store,      \* the committed store row
  storeWrite, \* uncommitted update of the store row, per transaction
  events,     \* staged event-bus jobs: sequence of [name, id, tx]
  products,   \* ids of the rows of the product table
  nextId,     \* next generated channel id
  pc,         \* position of each caller
  txn,        \* local variables of the call each caller is in
  ret,        \* per caller: its call that completed last, with its outcome
  defaults,   \* the channels createDefault saved: [id, seq] (history)
  storeLog,   \* ids committed to the store row, in commit order (history)
  ncalls      \* number of calls started

vars == <<channels, assoc, store, storeWrite, events, products, nextId,
          pc, txn, ret, defaults, storeLog, ncalls>>

\* ------------------------------------------------------------ sequences
RECURSIVE SeqsUpTo(_, _)
SeqsUpTo(S, n) ==
  IF n = 0 THEN {<<>>}
  ELSE LET shorter == SeqsUpTo(S, n - 1)
       IN  shorter \cup {Append(s, x) : s \in shorter, x \in S}

ProductIdInputs == SeqsUpTo(RequestedProductIds, MaxIds) \ {<<>>}

Range(s) == {s[i] : i \in 1..Len(s)}

\* Array.prototype.join: the elements with the separator between them
RECURSIVE Join(_, _)
Join(s, sep) ==
  IF s = <<>> THEN <<>>
  ELSE IF Len(s) = 1 THEN s
       ELSE <<Head(s), sep>> \o Join(Tail(s), sep)

\* --------------------------------------------------------- transactions
Visible(tx, row) == row # NoRow /\ row.tx \in {Committed, tx}

CommitChannels(ch, tx) ==
  [i \in DOMAIN ch |->
     IF ch[i] # NoRow /\ ch[i].tx = tx THEN [ch[i] EXCEPT !.tx = Committed]
     ELSE ch[i]]

RollbackChannels(ch, tx) ==
  [i \in DOMAIN ch |-> IF ch[i] # NoRow /\ ch[i].tx = tx THEN NoRow ELSE ch[i]]

CommitRows(rows, tx) ==
  [i \in DOMAIN rows |->
     IF rows[i].tx = tx THEN [rows[i] EXCEPT !.tx = Committed] ELSE rows[i]]

RollbackRows(rows, tx) == SelectSeq(rows, LAMBDA r : r.tx # tx)

RowsOf(rows, tx) == SelectSeq(rows, LAMBDA r : r.tx = tx)

Payloads(evs) == [i \in DOMAIN evs |-> [name |-> evs[i].name, id |-> evs[i].id]]

\* faulty variant: the event is emitted outside the transaction
EmitTxNone(tx) == Committed

\* eventBusService_.withTransaction(manager): the job is staged in that transaction
EmitTx(tx) == tx

\* eventBusService_.emit(name, { id })
Emit(evs, tx, seq, name, id) ==
  Append(evs, [name |-> name, id |-> id, tx |-> EmitTx(tx), seq |-> seq])

\* the payloads of the events of call seq that the log holds
EmittedBy(evs, seq) == Payloads(SelectSeq(evs, LAMBDA e : e.seq = seq))

\* ------------------------------------------------------------- entities
Entity(id, row) ==
  [id |-> id, name |-> row.name, description |-> row.description,
   is_disabled |-> row.is_disabled, deleted_at |-> row.deleted_at]

Row(entity, tx) ==
  [name |-> entity.name, description |-> entity.description,
   is_disabled |-> entity.is_disabled, deleted_at |-> entity.deleted_at,
   tx |-> tx]

\* faulty variant: the find returns deleted rows too
NotDeletedAlways(row) == TRUE

\* the soft-delete filter of a find without withDeleted
NotDeleted(row) == row.deleted_at = Null

\* salesChannelRepo.findOne(buildQuery({ id }, config))
findOne(tx, id) ==
  IF id \in DOMAIN channels /\ Visible(tx, channels[id])
     /\ NotDeleted(channels[id])
  THEN Entity(id, channels[id])
  ELSE NoEntity

NotFoundMessage(id) == <<"Sales channel with id", id, "was not found">>

\* SalesChannelService.retrieve: what it returns or throws
retrieveResult(tx, salesChannelId) ==
  LET salesChannel == findOne(tx, salesChannelId)
  IN  IF salesChannel = NoEntity
      THEN [kind |-> NOT_FOUND, value |-> NoEntity,
            msg |-> NotFoundMessage(salesChannelId)]
      ELSE [kind |-> "ok", value |-> salesChannel, msg |-> <<>>]

\* ---------------------------------------------------------- call records
NoCall ==
  [seq |-> 0, op |-> "none", id |-> Undefined, data |-> <<>>,
   ids |-> <<>>, kind |-> "none", value |-> NoEntity, msg |-> <<>>,
   emitted |-> <<>>, added |-> 0]

Call(seq, op, id, data, ids, kind, value, msg, emitted, added) ==
  [seq |-> seq, op |-> op, id |-> id, data |-> data,
   ids |-> ids, kind |-> kind, value |-> value, msg |-> msg,
   emitted |-> emitted, added |-> added]

Idle == [seq |-> 0, salesChannelId |-> Undefined, productIds |-> <<>>,
         idx |-> 0, channel |-> NoEntity]

Init ==
  /\ channels = [i \in ChannelIds |-> NoRow]
  /\ assoc = <<>>
  /\ store = [default_sales_channel_id |-> Null]
  /\ storeWrite = [p \in Procs |-> NoWrite]
  /\ events = <<>>
  /\ products = ExistingProducts
  /\ nextId = 1
  /\ pc = [p \in Procs |-> "idle"]
  /\ txn = [p \in Procs |-> Idle]
  /\ ret = [p \in Procs |-> NoCall]
  /\ defaults = {}
  /\ storeLog = <<>>
  /\ ncalls = 0

CanCall(p) == pc[p] = "idle" /\ ncalls < MaxCalls

\* ------------------------------------------------------------- retrieve
retrieve(p, salesChannelId) ==
  /\ CanCall(p)
  /\ ncalls' = ncalls + 1
  /\ LET r == retrieveResult(Tx(p), salesChannelId)
     IN  ret' = [ret EXCEPT ![p] =
                   Call(ncalls + 1, "retrieve", salesChannelId, <<>>, <<>>,
                        r.kind, r.value, r.msg, <<>>, 0)]
  /\ UNCHANGED <<channels, assoc, store, storeWrite, events, products, nextId,
                 pc, txn, defaults, storeLog>>

\* --------------------------------------------------------------- create
CreateInputs ==
  { [name |-> "Web", description |-> "storefront", is_disabled |-> "false"],
    [name |-> "App", description |-> Null, is_disabled |-> "true"] }

\* salesChannelRepo.create(data): a new instance with the properties of data
RepoCreate(data) ==
  [id |-> Undefined, name |-> data.name, description |-> data.description,
   is_disabled |-> data.is_disabled, deleted_at |-> Null]

\* the id an insert gives an entity that has none
BeforeInsert(entity, n) ==
  IF entity.id = Undefined THEN [entity EXCEPT !.id = GenerateId(n)] ELSE entity

\* the body of create, run in transaction tx by call seq
createEvents(tx, seq, data) ==
  Emit(events, tx, seq, CREATED, RepoCreate(data).id)

createSaved(data) == BeforeInsert(RepoCreate(data), nextId)

createChannels(tx, data) ==
  LET saved == createSaved(data)
  IN  [channels EXCEPT ![saved.id] = Row(saved, tx)]

create(p, data) ==
  /\ CanCall(p)
  /\ nextId <= MaxChannels
  /\ ncalls' = ncalls + 1
  /\ nextId' = nextId + 1
  /\ events' = CommitRows(createEvents(Tx(p), ncalls + 1, data), Tx(p))
  /\ channels' = CommitChannels(createChannels(Tx(p), data), Tx(p))
  /\ ret' = [ret EXCEPT ![p] =
               Call(ncalls + 1, "create", Undefined, data, <<>>, "ok",
                    createSaved(data), <<>>, EmittedBy(events', ncalls + 1), 0)]
  /\ UNCHANGED <<assoc, store, storeWrite, products, pc, txn, defaults, storeLog>>

\* --------------------------------------------------------------- update
UpdateValues(k) ==
  IF k = "name" THEN {Undefined, "renamed"}
  ELSE IF k = "description" THEN {Undefined, Null, "new"}
  ELSE {Undefined, "true"}

UpdateInputs ==
  { d \in UNION {[K -> {Undefined, Null, "renamed", "new", "true"}] : K \in SUBSET Fields} :
      \A k \in DOMAIN d : d[k] \in UpdateValues(k) }

\* faulty variant: null is skipped like undefined
DefinedAndNotNull(v) == v \notin {Undefined, Null}

\* typeof data[key] !== `undefined`
Defined(v) == v # Undefined

\* for (const key of Object.keys(data)) ... salesChannel[key] = data[key]
Assign(salesChannel, data) ==
  [k \in DOMAIN salesChannel |->
     IF k \in DOMAIN data /\ Defined(data[k]) THEN data[k] ELSE salesChannel[k]]

update(p, salesChannelId, data) ==
  /\ CanCall(p)
  /\ ncalls' = ncalls + 1
  /\ LET r == retrieveResult(Tx(p), salesChannelId)
         result == Assign(r.value, data)
     IN  IF r.kind # "ok"
         THEN /\ ret' = [ret EXCEPT ![p] =
                           Call(ncalls + 1, "update", salesChannelId, data, <<>>,
                                r.kind, NoEntity, r.msg, <<>>, 0)]
              /\ UNCHANGED <<channels, events>>
         ELSE /\ channels' = [channels EXCEPT ![result.id] = Row(result, Committed)]
              /\ events' = CommitRows(
                             Emit(events, Tx(p), ncalls + 1, UPDATED, result.id), Tx(p))
              /\ ret' = [ret EXCEPT ![p] =
                           Call(ncalls + 1, "update", salesChannelId, data, <<>>,
                                "ok", result, <<>>,
                                EmittedBy(events', ncalls + 1), 0)]
  /\ UNCHANGED <<assoc, store, storeWrite, products, nextId, pc, txn, defaults,
                 storeLog>>

\* --------------------------------------------------------------- delete
\* if (!salesChannel) { return }
Found(salesChannel) == salesChannel # NoEntity

\* faulty variant: the removal is not written
softRemoveNothing(ch, salesChannel) == ch

\* salesChannelRepo.softRemove(salesChannel)
softRemove(ch, salesChannel) ==
  [ch EXCEPT ![salesChannel.id].deleted_at = Now]

delete(p, salesChannelId) ==
  /\ CanCall(p)
  /\ ncalls' = ncalls + 1
  /\ LET salesChannel == retrieveResult(Tx(p), salesChannelId).value
     IN  IF ~Found(salesChannel)
         THEN /\ ret' = [ret EXCEPT ![p] =
                           Call(ncalls + 1, "delete", salesChannelId, <<>>, <<>>,
                                "ok", NoEntity, <<>>, <<>>, 0)]
              /\ UNCHANGED <<channels, events>>
         ELSE /\ channels' = softRemove(channels, salesChannel)
              /\ events' = CommitRows(
                             Emit(events, Tx(p), ncalls + 1, DELETED, salesChannelId),
                             Tx(p))
              /\ ret' = [ret EXCEPT ![p] =
                           Call(ncalls + 1, "delete", salesChannelId, <<>>, <<>>,
                                "ok", NoEntity, <<>>,
                                EmittedBy(events', ncalls + 1), 0)]
  /\ UNCHANGED <<assoc, store, storeWrite, products, nextId, pc, txn, defaults,
                 storeLog>>

\* -------------------------------------------------------- createDefault
DefaultInput ==
  [name |-> "Default Sales Channel", description |-> "Created by Medusa",
   is_disabled |-> "false"]

\* storeService_.retrieve({ relations: ["default_sales_channel"] })
storeRetrieve(tx) ==
  [default_sales_channel_id |-> store.default_sales_channel_id,
   default_sales_channel |->
     IF store.default_sales_channel_id = Null THEN NoEntity
     ELSE findOne(tx, store.default_sales_channel_id)]

\* faulty variant: the check for an existing default is never true
HasDefaultNever(s) == FALSE

\* if (store.default_sales_channel_id)
HasDefault(s) == s.default_sales_channel_id # Null

\* faulty variant: the store keeps the default it has
StoreUpdateIfUnset(s, id) ==
  IF s.default_sales_channel_id # Null THEN s
  ELSE [s EXCEPT !.default_sales_channel_id = id]

\* storeService_.update({ default_sales_channel_id: defaultSalesChannel.id })
StoreUpdate(s, id) == [s EXCEPT !.default_sales_channel_id = id]

\* the store has a default: return store.default_sales_channel
createDefaultExisting(p) ==
  /\ CanCall(p)
  /\ HasDefault(storeRetrieve(Tx(p)))
  /\ ncalls' = ncalls + 1
  /\ ret' = [ret EXCEPT ![p] =
               Call(ncalls + 1, "createDefault", Undefined, <<>>, <<>>, "ok",
                    storeRetrieve(Tx(p)).default_sales_channel, <<>>, <<>>, 0)]
  /\ UNCHANGED <<channels, assoc, store, storeWrite, events, products, nextId,
                 pc, txn, defaults, storeLog>>

\* the store has no default: this.create(...) in the transaction of the call
createDefaultCreate(p) ==
  /\ CanCall(p)
  /\ ~HasDefault(storeRetrieve(Tx(p)))
  /\ nextId <= MaxChannels
  /\ ncalls' = ncalls + 1
  /\ nextId' = nextId + 1
  /\ events' = createEvents(Tx(p), ncalls + 1, DefaultInput)
  /\ channels' = createChannels(Tx(p), DefaultInput)
  /\ defaults' = defaults \cup {[id |-> createSaved(DefaultInput).id, seq |-> ncalls + 1]}
  /\ txn' = [txn EXCEPT ![p] = [Idle EXCEPT !.seq = ncalls + 1,
                                            !.channel = createSaved(DefaultInput)]]
  /\ pc' = [pc EXCEPT ![p] = "cd_store"]
  /\ UNCHANGED <<assoc, store, storeWrite, products, ret, storeLog>>

\* the store update: it waits while another transaction holds the store row
createDefaultStore(p) ==
  /\ pc[p] = "cd_store"
  /\ \A q \in Procs \ {p} : storeWrite[q] = NoWrite
  /\ storeWrite' = [storeWrite EXCEPT ![p] = txn[p].channel.id]
  /\ pc' = [pc EXCEPT ![p] = "cd_commit"]
  /\ UNCHANGED <<channels, assoc, store, events, products, nextId, txn, ret,
                 defaults, storeLog, ncalls>>

\* the store update throws: atomicPhase_ rolls the transaction back
createDefaultStoreFails(p) ==
  /\ pc[p] = "cd_store"
  /\ channels' = RollbackChannels(channels, Tx(p))
  /\ events' = RollbackRows(events, Tx(p))
  /\ ret' = [ret EXCEPT ![p] =
               Call(txn[p].seq, "createDefault", Undefined, <<>>, <<>>, "error",
                    NoEntity, <<>>, EmittedBy(events', txn[p].seq), 0)]
  /\ txn' = [txn EXCEPT ![p] = Idle]
  /\ pc' = [pc EXCEPT ![p] = "idle"]
  /\ UNCHANGED <<assoc, store, storeWrite, products, nextId, defaults, storeLog,
                 ncalls>>

\* return defaultSalesChannel: atomicPhase_ commits
createDefaultCommit(p) ==
  /\ pc[p] = "cd_commit"
  /\ channels' = CommitChannels(channels, Tx(p))
  /\ events' = CommitRows(events, Tx(p))
  /\ store' = StoreUpdate(store, storeWrite[p])
  /\ storeLog' = Append(storeLog, storeWrite[p])
  /\ storeWrite' = [storeWrite EXCEPT ![p] = NoWrite]
  /\ ret' = [ret EXCEPT ![p] =
               Call(txn[p].seq, "createDefault", Undefined, <<>>, <<>>, "ok",
                    txn[p].channel, <<>>, EmittedBy(events', txn[p].seq), 0)]
  /\ txn' = [txn EXCEPT ![p] = Idle]
  /\ pc' = [pc EXCEPT ![p] = "idle"]
  /\ UNCHANGED <<assoc, products, nextId, defaults, ncalls>>

\* ---------------------------------------------------------- addProducts
SamePair(row, c, pid) == row.sales_channel_id = c /\ row.product_id = pid

\* faulty variant: the insert without orIgnore skips nothing
ConflictsNever(rows, tx, c, pid) == FALSE

\* .orIgnore(): a row whose pair the transaction sees is skipped
Conflicts(rows, tx, c, pid) ==
  \E i \in DOMAIN rows : SamePair(rows[i], c, pid) /\ rows[i].tx \in {Committed, tx}

\* the transactions whose uncommitted row holds the pair: the insert waits for them
Holders(rows, tx, c, pid) ==
  {rows[i].tx : i \in {j \in DOMAIN rows :
                         SamePair(rows[j], c, pid) /\ rows[j].tx \notin {Committed, tx}}}

\* the row of values(productIds.map(...)) the statement is at
CurrentRow(p) ==
  [sales_channel_id |-> txn[p].salesChannelId,
   product_id |-> txn[p].productIds[txn[p].idx]]

Inserting(p) == pc[p] = "ap_insert" /\ txn[p].idx <= Len(txn[p].productIds)

WaitsFor(p) ==
  IF Inserting(p)
  THEN {q \in Procs : Tx(q) \in Holders(assoc, Tx(p), CurrentRow(p).sales_channel_id,
                                        CurrentRow(p).product_id)}
  ELSE {}

RECURSIVE WaitChain(_, _)
WaitChain(S, n) ==
  IF n = 0 THEN S ELSE WaitChain(S \cup UNION {WaitsFor(q) : q \in S}, n - 1)

\* p is on a cycle of waiting transactions
Deadlocked(p) == p \in WaitChain(WaitsFor(p), NumProcs)

\* the references of the rows the statement inserted, checked when it ends
ForeignKeyViolation(rows, tx) ==
  \E i \in DOMAIN rows :
     /\ rows[i].tx = tx
     /\ \/ ~(rows[i].sales_channel_id \in DOMAIN channels
             /\ Visible(tx, channels[rows[i].sales_channel_id]))
        \/ rows[i].product_id \notin products

\* productService_.list({ id: productIds })
ProductList(productIds) == {[id |-> x] : x \in products \cap Range(productIds)}

\* faulty variant: the filter keeps the ids that were found
NotListedInverted(existingProducts, cId) == \E el \in existingProducts : el.id = cId

\* existingProducts.findIndex((el) => el.id === cId) === -1
NotListed(existingProducts, cId) == ~ \E el \in existingProducts : el.id = cId

nonExistingProducts(productIds) ==
  SelectSeq(productIds, LAMBDA cId : NotListed(ProductList(productIds), cId))

\* JSON.stringify of a string: the string between double quotes
Stringify(s) == <<"\"">> \o s \o <<"\"">>

\* the error handler addProducts gives atomicPhase_
errorHandler(code, productIds) ==
  IF code = FOREIGN_KEY_ERROR
  THEN [kind |-> NOT_FOUND,
        msg |-> <<"The following product ids do not exist: ">>
                  \o Stringify(Join(nonExistingProducts(productIds), ", "))]
  ELSE [kind |-> code, msg |-> <<>>]

addProductsBegin(p, salesChannelId, productIds) ==
  /\ CanCall(p)
  /\ ncalls' = ncalls + 1
  /\ txn' = [txn EXCEPT ![p] = [Idle EXCEPT !.seq = ncalls + 1,
                                            !.salesChannelId = salesChannelId,
                                            !.productIds = productIds,
                                            !.idx = 1]]
  /\ pc' = [pc EXCEPT ![p] = "ap_insert"]
  /\ UNCHANGED <<channels, assoc, store, storeWrite, events, products, nextId,
                 ret, defaults, storeLog>>

\* the insert statement, one row of values at a time
addProductsInsert(p) ==
  /\ Inserting(p)
  /\ WaitsFor(p) = {}
  /\ LET row == CurrentRow(p)
     IN  assoc' = IF Conflicts(assoc, Tx(p), row.sales_channel_id, row.product_id)
                  THEN assoc
                  ELSE Append(assoc, [sales_channel_id |-> row.sales_channel_id,
                                      product_id |-> row.product_id,
                                      tx |-> Tx(p)])
  /\ txn' = [txn EXCEPT ![p].idx = @ + 1]
  /\ UNCHANGED <<channels, store, storeWrite, events, products, nextId, pc, ret,
                 defaults, storeLog, ncalls>>

\* the call ends with an error of the store: rollback, then the error handler
Throw(p, code) ==
  /\ assoc' = RollbackRows(assoc, Tx(p))
  /\ LET e == errorHandler(code, txn[p].productIds)
     IN  ret' = [ret EXCEPT ![p] =
                   Call(txn[p].seq, "addProducts", txn[p].salesChannelId, <<>>,
                        txn[p].productIds, e.kind, NoEntity, e.msg, <<>>, 0)]
  /\ txn' = [txn EXCEPT ![p] = Idle]
  /\ pc' = [pc EXCEPT ![p] = "idle"]
  /\ UNCHANGED <<channels, store, storeWrite, events, products, nextId,
                 defaults, storeLog, ncalls>>

addProductsForeignKey(p) ==
  /\ pc[p] = "ap_insert"
  /\ ~Inserting(p)
  /\ ForeignKeyViolation(assoc, Tx(p))
  /\ Throw(p, FOREIGN_KEY_ERROR)

\* the store ends a cycle of waiting transactions by failing one of them
addProductsDeadlock(p) ==
  /\ Inserting(p)
  /\ Deadlocked(p)
  /\ Throw(p, DEADLOCK_DETECTED)

\* return await this.retrieve(salesChannelId), then commit or rollback
addProductsReturn(p) ==
  /\ pc[p] = "ap_insert"
  /\ ~Inserting(p)
  /\ ~ForeignKeyViolation(assoc, Tx(p))
  /\ LET r == retrieveResult(Tx(p), txn[p].salesChannelId)
     IN  /\ assoc' = IF r.kind = "ok" THEN CommitRows(assoc, Tx(p))
                     ELSE RollbackRows(assoc, Tx(p))
         /\ ret' = [ret EXCEPT ![p] =
                      Call(txn[p].seq, "addProducts", txn[p].salesChannelId, <<>>,
                           txn[p].productIds, r.kind, r.value, r.msg, <<>>,
                           IF r.kind = "ok" THEN Len(RowsOf(assoc, Tx(p))) ELSE 0)]
  /\ txn' = [txn EXCEPT ![p] = Idle]
  /\ pc' = [pc EXCEPT ![p] = "idle"]
  /\ UNCHANGED <<channels, store, storeWrite, events, products, nextId,
                 defaults, storeLog, ncalls>>

\* ------------------------------------------------------- specifications
\* one caller, one call at a time: the channels and the default channel
Next ==
  \/ \E id \in ChannelIds : retrieve(SeqCaller, id)
  \/ \E data \in CreateInputs : create(SeqCaller, data)
  \/ \E id \in ChannelIds, data \in UpdateInputs : update(SeqCaller, id, data)
  \/ \E id \in ChannelIds : delete(SeqCaller, id)
  \/ createDefaultExisting(SeqCaller)
  \/ createDefaultCreate(SeqCaller)
  \/ createDefaultStore(SeqCaller)
  \/ createDefaultCommit(SeqCaller)

Spec == Init /\ [][Next]_vars

\* one caller, one call at a time: the products of the channels
AssocNext ==
  \/ \E data \in {d \in CreateInputs : d.name = "Web"} : create(SeqCaller, data)
  \/ \E id \in ChannelIds : delete(SeqCaller, id)
  \/ \E id \in ChannelIds, ids \in ProductIdInputs : addProductsBegin(SeqCaller, id, ids)
  \/ addProductsInsert(SeqCaller)
  \/ addProductsForeignKey(SeqCaller)
  \/ addProductsReturn(SeqCaller)

SpecAssoc == Init /\ [][AssocNext]_vars

\* concurrent callers of createDefault, each in its own transaction
DefaultNext ==
  \E p \in Procs :
    \/ \E id \in ChannelIds : retrieve(p, id)
    \/ createDefaultExisting(p)
    \/ createDefaultCreate(p)
    \/ createDefaultStore(p)
    \/ createDefaultStoreFails(p)
    \/ createDefaultCommit(p)

SpecDefault == Init /\ [][DefaultNext]_vars

\* concurrent callers of addProducts on the channels an earlier create left
InitConc ==
  /\ channels = [i \in ChannelIds |->
                   IF i = GenerateId(1)
                   THEN [name |-> "Web", description |-> "storefront",
                         is_disabled |-> "false", deleted_at |-> Null,
                         tx |-> Committed]
                   ELSE NoRow]
  /\ assoc = <<>>
  /\ store = [default_sales_channel_id |-> Null]
  /\ storeWrite = [p \in Procs |-> NoWrite]
  /\ events = <<[name |-> CREATED, id |-> Undefined, tx |-> Committed, seq |-> 0]>>
  /\ products = ExistingProducts
  /\ nextId = 2
  /\ pc = [p \in Procs |-> "idle"]
  /\ txn = [p \in Procs |-> Idle]
  /\ ret = [p \in Procs |-> NoCall]
  /\ defaults = {}
  /\ storeLog = <<>>
  /\ ncalls = 0

SeededChannels == {id \in ChannelIds : channels[id] # NoRow}

ConcNext ==
  \E p \in Procs :
    \/ \E id \in SeededChannels, ids \in ProductIdInputs : addProductsBegin(p, id, ids)
    \/ addProductsInsert(p)
    \/ addProductsForeignKey(p)
    \/ addProductsDeadlock(p)
    \/ addProductsReturn(p)

SpecConc == InitConc /\ [][ConcNext]_vars

\* ---------------------------------------------------------------- claims
last == ret[SeqCaller]

\* a call of p returns in this step
Returned(p) == ret'[p].seq # ret[p].seq

Pairs(rows) ==
  {<<rows[i].sales_channel_id, rows[i].product_id>> : i \in DOMAIN rows}

Requested(id, ids) == {<<id, x>> : x \in Range(ids)}

SoftDeleted(ch, id) == ch[id] # NoRow /\ ch[id].deleted_at # Null

\* C1: addProducts on an existing channel with ids of existing products
\* succeeds and leaves the association table with what it held plus exactly
\* one row for every requested pair it did not hold; a repeated call adds
\* no row.
C1_AddProductsUnion ==
  [][ ( /\ Returned(SeqCaller)
        /\ ret'[SeqCaller].op = "addProducts"
        /\ findOne(Tx(SeqCaller), ret'[SeqCaller].id) # NoEntity
        /\ Range(ret'[SeqCaller].ids) \subseteq products )
      => LET r == ret'[SeqCaller]
             before == RowsOf(assoc, Committed)
             after == RowsOf(assoc', Committed)
             fresh == Requested(r.id, r.ids) \ Pairs(before)
         IN  /\ r.kind = "ok"
             /\ Pairs(after) = Pairs(before) \cup Requested(r.id, r.ids)
             /\ Len(after) = Cardinality(Pairs(after))
             /\ SubSeq(after, 1, Len(before)) = before
             /\ Len(after) = Len(before) + Cardinality(fresh)
             /\ r.added = Cardinality(fresh)
             /\ assoc' = after ]_vars

\* C1 witness: a call with ids that were all added before succeeded and added no row
C1_Witness ==
  /\ last.op = "addProducts"
  /\ last.kind = "ok"
  /\ Len(last.ids) > 1
  /\ last.added = 0
  /\ Requested(last.id, last.ids) \subseteq Pairs(RowsOf(assoc, Committed))

ListedIds(msg) == {msg[i] : i \in {j \in 3..(Len(msg) - 1) : (j - 3) % 2 = 0}}

\* C2: addProducts on a channel that exists with some requested id that is
\* no product fails with NotFound, its message lists exactly the requested
\* ids the product lookup does not return, and no call ends with the raw
\* foreign key error.
C2_ForeignKeyTranslated ==
  /\ last.op = "addProducts" => last.kind # FOREIGN_KEY_ERROR
  /\ ( /\ last.op = "addProducts"
       /\ channels[last.id] # NoRow
       /\ ~(Range(last.ids) \subseteq products) )
     => /\ last.kind = NOT_FOUND
        /\ last.msg[1] = "The following product ids do not exist: "
        /\ ListedIds(last.msg) = Range(last.ids) \ products
        /\ ListedIds(last.msg) \cap products = {}
        /\ assoc = RowsOf(assoc, Committed) \/ pc[SeqCaller] # "idle"

\* C2 witness: [validId, "does-not-exist"] on a valid channel failed listing "does-not-exist"
C2_Witness ==
  /\ last.op = "addProducts"
  /\ last.ids = <<"prod_1", "does-not-exist">>
  /\ channels[last.id] # NoRow
  /\ last.kind = NOT_FOUND
  /\ ListedIds(last.msg) = {"does-not-exist"}

DefaultChannels == {d \in defaults : channels[d.id] # NoRow}

CreatedBy(call) == {d \in defaults : d.seq = call.seq}

\* C3: without concurrency the calls of createDefault create one channel in
\* all: the first creates "Default Sales Channel", enabled, makes it the
\* default of the store and returns it; a later call creates nothing and
\* returns the channel the store references.
C3_OneDefault ==
  /\ Cardinality(DefaultChannels) <= 1
  /\ (last.op = "createDefault" /\ last.kind = "ok")
     => /\ Cardinality(DefaultChannels) = 1
        /\ store.default_sales_channel_id # Null
        /\ \A d \in DefaultChannels : store.default_sales_channel_id = d.id
        /\ findOne(Committed, store.default_sales_channel_id) # NoEntity
             => last.value = findOne(Committed, store.default_sales_channel_id)
        /\ CreatedBy(last) # {}
             => /\ last.value.name = "Default Sales Channel"
                /\ last.value.is_disabled = "false"
                /\ last.value.id = store.default_sales_channel_id
                /\ CreatedBy(last) = DefaultChannels

\* C3 witness: a later createDefault created nothing and returned the default channel
C3_Witness ==
  /\ last.op = "createDefault"
  /\ last.kind = "ok"
  /\ CreatedBy(last) = {}
  /\ last.value # NoEntity
  /\ last.value.id = store.default_sales_channel_id
  /\ Cardinality(DefaultChannels) = 1

\* C4: update of an existing channel overwrites exactly the fields of the
\* input that are not undefined (null is written), leaves the rest of the
\* channel and every other row alone, and adds one UPDATED event with the
\* id; on an id that is not found it fails with NotFound and changes nothing.
C4_UpdateFrame ==
  [][ (Returned(SeqCaller) /\ ret'[SeqCaller].op = "update")
      => LET r == ret'[SeqCaller]
             before == findOne(Tx(SeqCaller), r.id)
         IN  IF before = NoEntity
             THEN /\ r.kind = NOT_FOUND
                  /\ r.emitted = <<>>
                  /\ UNCHANGED <<channels, assoc, store, storeWrite, events>>
             ELSE /\ r.kind = "ok"
                  /\ \A k \in Fields :
                       channels'[r.id][k] =
                         IF k \in DOMAIN r.data /\ r.data[k] # Undefined
                         THEN r.data[k] ELSE before[k]
                  /\ channels'[r.id].deleted_at = before.deleted_at
                  /\ channels'[r.id].tx = Committed
                  /\ \A j \in ChannelIds \ {r.id} : channels'[j] = channels[j]
                  /\ r.value = Entity(r.id, channels'[r.id])
                  /\ events' = Append(events, [name |-> UPDATED, id |-> r.id,
                                               tx |-> Committed, seq |-> r.seq])
                  /\ r.emitted = <<[name |-> UPDATED, id |-> r.id]>>
                  /\ UNCHANGED <<assoc, store, storeWrite>> ]_vars

\* C4 witness: update with name undefined and description null kept the name and wrote null
C4_Witness ==
  /\ last.op = "update"
  /\ last.kind = "ok"
  /\ DOMAIN last.data = {"name", "description"}
  /\ last.data["name"] = Undefined
  /\ last.data["description"] = Null
  /\ last.value.name = "Web"
  /\ last.value.description = Null

\* C5: delete of an id that resolves to no channel that is not deleted
\* returns without error, changes nothing and emits nothing; delete of an
\* existing channel marks its row deleted and adds one DELETED event with
\* the id.
C5_DeleteIdempotent ==
  [][ (Returned(SeqCaller) /\ ret'[SeqCaller].op = "delete")
      => LET r == ret'[SeqCaller]
             before == findOne(Tx(SeqCaller), r.id)
         IN  /\ r.kind = "ok"
             /\ IF before = NoEntity
                THEN /\ r.emitted = <<>>
                     /\ UNCHANGED <<channels, assoc, store, storeWrite, events>>
                ELSE /\ channels' = [channels EXCEPT ![r.id].deleted_at = Now]
                     /\ SoftDeleted(channels', r.id)
                     /\ events' = Append(events, [name |-> DELETED, id |-> r.id,
                                                  tx |-> Committed, seq |-> r.seq])
                     /\ r.emitted = <<[name |-> DELETED, id |-> r.id]>>
                     /\ UNCHANGED <<assoc, store, storeWrite>> ]_vars

\* C5 witness: a delete of a channel an earlier delete removed returned and emitted nothing
C5_Witness ==
  /\ last.op = "delete"
  /\ last.kind = "ok"
  /\ SoftDeleted(channels, last.id)
  /\ last.emitted = <<>>
  /\ \E i \in DOMAIN events : events[i].name = DELETED /\ events[i].id = last.id

\* C6: a deleted channel stays deleted, and retrieve returns the channel
\* exactly when the id refers to a row that is not deleted, failing with
\* NotFound otherwise.
C6_RetrieveAfterDelete ==
  [][ /\ \A id \in ChannelIds : SoftDeleted(channels, id) => SoftDeleted(channels', id)
      /\ (Returned(SeqCaller) /\ ret'[SeqCaller].op = "retrieve")
         => LET r == ret'[SeqCaller]
                live == channels[r.id] # NoRow /\ channels[r.id].tx = Committed
                        /\ ~SoftDeleted(channels, r.id)
            IN  /\ r.kind = IF live THEN "ok" ELSE NOT_FOUND
                /\ live => r.value = Entity(r.id, channels[r.id])
                /\ UNCHANGED <<channels, assoc, store, storeWrite, events>> ]_vars

\* C6 witness: retrieve of a channel that was created and deleted failed with NotFound
C6_Witness ==
  /\ last.op = "retrieve"
  /\ last.kind = NOT_FOUND
  /\ SoftDeleted(channels, last.id)

\* C7: a create that succeeded emitted one CREATED event whose id is the id
\* of the channel it returned.
C7_CreatedEventCarriesId ==
  (last.op = "create" /\ last.kind = "ok")
    => /\ Len(last.emitted) = 1
       /\ last.emitted[1].name = CREATED
       /\ last.emitted[1].id = last.value.id

Persisted(d) == channels[d.id] # NoRow /\ channels[d.id].tx = Committed

EventsPersisted(seq) ==
  \E i \in DOMAIN events : events[i].seq = seq /\ events[i].tx = Committed

\* C8: the channel createDefault creates, its CREATED event and the update
\* of the store commit together or not at all: after a createDefault whose
\* store update failed neither its channel nor its event is left, and no
\* retrieve of another caller returns a channel that is not committed.
C8_CreateDefaultAtomic ==
  /\ \A d \in defaults :
       /\ Persisted(d) <=> d.id \in Range(storeLog)
       /\ EventsPersisted(d.seq) <=> d.id \in Range(storeLog)
  /\ \A p \in Procs :
       (ret[p].op = "createDefault" /\ ret[p].kind = "error")
         => /\ \A d \in CreatedBy(ret[p]) : channels[d.id] = NoRow
            /\ \A i \in DOMAIN events : events[i].seq # ret[p].seq
            /\ ret[p].emitted = <<>>
  /\ \A q \in Procs :
       (ret[q].op = "retrieve" /\ ret[q].kind = "ok")
         => channels[ret[q].id].tx = Committed
  /\ \A q \in Procs :
       (ret[q].op = "createDefault" /\ ret[q].kind = "ok" /\ ret[q].value # NoEntity)
         => channels[ret[q].value.id].tx = Committed

\* C8 witness: a createDefault failed at the store update after it created a channel, and nothing of it is left
C8_Witness ==
  \E p \in Procs :
    /\ ret[p].op = "createDefault"
    /\ ret[p].kind = "error"
    /\ CreatedBy(ret[p]) # {}
    /\ \A d \in CreatedBy(ret[p]) : channels[d.id] = NoRow
    /\ store.default_sales_channel_id = Null

\* C9: no addProducts on an existing channel with ids of existing products
\* fails, whatever other addProducts calls run with it, and when it has
\* returned the table holds each of its pairs once.
C9_NoConflictFailure ==
  \A p \in Procs :
    ( /\ ret[p].op = "addProducts"
      /\ channels[ret[p].id] # NoRow
      /\ Range(ret[p].ids) \subseteq products )
    => /\ ret[p].kind = "ok"
       /\ Requested(ret[p].id, ret[p].ids) \subseteq Pairs(RowsOf(assoc, Committed))
       /\ Len(RowsOf(assoc, Committed)) = Cardinality(Pairs(RowsOf(assoc, Committed)))

Creators ==
  {p \in Procs : ret[p].op = "createDefault" /\ ret[p].kind = "ok"
                 /\ CreatedBy(ret[p]) # {}}

Position(log, id) == CHOOSE i \in DOMAIN log : log[i] = id

\* C10: when two createDefault calls both found no default and both
\* created a channel, two channels named "Default Sales Channel" are left
\* and the store references the one whose store update was written last,
\* not the other.
C10_DefaultRace ==
  \A p, q \in Creators :
    p # q =>
      LET a == ret[p].value.id
          b == ret[q].value.id
      IN  /\ a # b
          /\ Persisted([id |-> a]) /\ Persisted([id |-> b])
          /\ channels[a].name = "Default Sales Channel"
          /\ channels[b].name = "Default Sales Channel"
          /\ a \in Range(storeLog) /\ b \in Range(storeLog)
          /\ store.default_sales_channel_id = storeLog[Len(storeLog)]
          /\ Position(storeLog, a) < Position(storeLog, b)
               => store.default_sales_channel_id # a

\* C10 witness: two callers both created a default channel and the store references the later one
C10_Witness ==
  \E p, q \in Creators :
    /\ p # q
    /\ Position(storeLog, ret[p].value.id) < Position(storeLog, ret[q].value.id)
    /\ store.default_sales_channel_id = ret[q].value.id

=============================================================================
